---- MODULE Spec2Model ----
(***************************************************************************)
(* Model of the acquisition/persistence engine of web-scrapper-pro:        *)
(*   - FastImageDownloader (src/src/scraper.js, lines 336-481): the        *)
(*     bounded-concurrency fetch engine;                                    *)
(*   - NetworkImageDownloader (src/src/downloader/network-downloader.js):   *)
(*     the passive capture store;                                           *)
(*   - safeFilename (src/unnamed/part_000): the file-name derivation.       *)
(*                                                                         *)
(* The program runs on one event loop.  An action of the model is one run  *)
(* of the loop: an I/O event together with the synchronous code and the    *)
(* promise continuations it triggers, up to the next await on I/O.         *)
(***************************************************************************)
EXTENDS Integers, Sequences, FiniteSets, TLC

\* ------------------------------------------------------------------ bounds
MaxUrls == 3          \* longest URL list handed to downloadAll
MaxClock == 1         \* Date.now() takes the values 0..MaxClock
MaxRuns == 2          \* downloadAll calls made on one engine instance
MaxConcurrent == 2    \* largest concurrency ceiling tried
MaxResponses == 3     \* responses the page emits
MaxRand == 1          \* Math.random() suffixes are 0..MaxRand
MaxFlushes == 2       \* saveAllImages calls made on one capture store
MaxTaken == 40        \* names already written when one loop iteration is probed

\* ------------------------------------------------------------------- URLs
\* A URL is reduced to what safeFilename reads of it: whether `new URL(url)`
\* parses, and the characters of path.basename(pathname).
UA  == [valid |-> TRUE,  base |-> <<"a", ".", "j">>]
UA2 == [valid |-> TRUE,  base |-> <<"a", "~", ".", "j">>]
UB  == [valid |-> TRUE,  base |-> <<"b", ".", "p">>]
UN  == [valid |-> TRUE,  base |-> <<>>]
UX  == [valid |-> FALSE, base |-> <<>>]
UrlSet == {UA, UA2, UB, UN, UX}

\* The character class [a-zA-Z0-9.\-_] of safeFilename.
SafeChars == {"a", "b", "j", "p", ".", "-", "_"}

RECURSIVE StripUnsafe(_)
StripUnsafe(s) ==
  IF s = <<>> THEN <<>>
  ELSE IF Head(s) \in SafeChars THEN <<Head(s)>> \o StripUnsafe(Tail(s))
       ELSE StripUnsafe(Tail(s))

\* `img-${Date.now()}.jpg`
ImgName(t) == [name |-> <<"img">>, stamp |-> t]

\* safeFilename(url): the index that downloadSingle passes is not a parameter
\* of the function and is ignored.
safeFilename(url, t) ==
  IF url.valid
  THEN IF StripUnsafe(url.base) # <<>>
       THEN [name |-> StripUnsafe(url.base), stamp |-> -1]
       ELSE ImgName(t)
  ELSE ImgName(t)

\* Does safeFilename(url) read the clock?
UsesClock(url) == ~url.valid \/ StripUnsafe(url.base) = <<>>

\* ------------------------------------------------------------------ state
VARIABLES
  maxConcurrent,  \* this.maxConcurrent, the ceiling of this.limit
  urls,           \* the urls argument of the current downloadAll call
  call,           \* position of downloadAll: idle, mkdir, running, returned, rejected
  stats,          \* this.stats
  task,           \* per submission index: the downloadSingle activation
  disk,           \* the output directory: file name -> [ino, open]
  now,            \* last value read from Date.now()
  run,            \* number of downloadAll calls made so far
  prev,           \* outcomes of the previous completed call (history)
  faulty,         \* some GET, write or mkdir has failed in this call (history)
  \* NetworkImageDownloader
  monitoring,     \* the 'response' handler is registered on the page
  networkImages,  \* this.networkImages: filename -> captured asset
  capStats,       \* this.stats of the capture store
  keyOrder,       \* the insertion order of the keys of this.networkImages
  capDisk,        \* the output directory of the capture store: name -> bytes
  lastFlush,      \* what the latest saveAllImages call did (history)
  cleared,        \* clear() was the latest operation that wrote the store (history)
  probe,          \* one loop iteration of saveImagesToDisk on a drawn input
  delivered       \* the responses the page has emitted, each with the
                  \* position of its handler (history)

fetchVars == <<maxConcurrent, urls, call, stats, task, disk, run, prev, faulty>>
capVars == <<monitoring, networkImages, keyOrder, capDisk, lastFlush, cleared, probe, capStats, delivered>>
vars == <<fetchVars, now, capVars>>

NoPath == [name |-> <<>>, stamp |-> -1]
NewTask == [st |-> "queued", path |-> NoPath, ino |-> 0, outcome |-> "none", gets |-> 0]

Idx == DOMAIN task

\* The URL lists tried: the first n URLs, n = 1..MaxUrls, of each repeating
\* pattern (a repeated URL, two URLs with one derived name, URLs without a
\* usable path segment, and a mix).
Patterns == {<<UA, UB>>, <<UA2, UA, UB>>, <<UN, UX>>, <<UA, UN>>}
Cyc(pat, n) == [k \in 1..n |-> pat[((k - 1) % Len(pat)) + 1]]
UrlLists == {Cyc(pat, n) : pat \in Patterns, n \in 1..MaxUrls}

Ino(i) == run * 100 + i

\* Attempts that have started and not yet recorded an outcome.
InFlight == {i \in Idx : task[i].st \in {"get", "open", "pipe", "hung"}}
Queued == {i \in Idx : task[i].st = "queued"}

\* a limiter that never holds a task back
SlotFreeAlways == TRUE

\* p-limit: activeCount < concurrency
SlotFree == Cardinality(InFlight) < maxConcurrent

\* A queued task is dequeued in the promise continuation of the completion
\* that freed its slot, before the event loop handles another I/O event.
StartPending == call = "running" /\ Queued # {} /\ SlotFree

Exists(p) == p \in DOMAIN disk
Partial(p) == Exists(p) /\ disk[p].open # {}

Unlink(d, p) == [q \in DOMAIN d \ {p} |-> d[q]]

\* fs.createWriteStream(p) once the file is open ('w': create or truncate)
OpenForWrite(d, p, i) ==
  IF p \in DOMAIN d
  THEN [d EXCEPT ![p].open = @ \cup {i}]
  ELSE [q \in DOMAIN d \cup {p} |-> IF q = p THEN [ino |-> Ino(i), open |-> {i}] ELSE d[q]]

\* the writer of attempt i closes its descriptor
CloseWriter(d, i) ==
  [q \in DOMAIN d |->
     IF d[q].ino = task[i].ino THEN [d[q] EXCEPT !.open = @ \ {i}] ELSE d[q]]

\* updateStats(type)
updateStats(type) == stats' = [stats EXCEPT ![type] = @ + 1]

\* ------------------------------------------------------------------- Init
\* no loop iteration probed
NoProbe == [filename |-> <<>>, written |-> {}, done |-> FALSE, final |-> <<>>,
            success |-> 0, failed |-> 0, duplicates |-> 0, kept |-> TRUE]

\* no saveAllImages call yet
NoFlush == [calls |-> 0, path |-> "none", captured |-> {}, n |-> 0,
            success |-> 0, failed |-> 0, duplicates |-> 0]

\* NetworkImageDownloader.constructor
CaptureStoreInit ==
  /\ monitoring = FALSE
  /\ networkImages = <<>>
  /\ keyOrder = <<>>
  /\ lastFlush = NoFlush
  /\ cleared = FALSE
  /\ capStats = [totalCaptured |-> 0, totalSaved |-> 0, totalErrors |-> 0,
                 startTime |-> -1, endTime |-> -1]
  /\ delivered = <<>>

\* FastImageDownloader.constructor
Init ==
  /\ CaptureStoreInit
  /\ capDisk = <<>>
  /\ probe = NoProbe
  /\ maxConcurrent \in 1..MaxConcurrent
  /\ urls = <<>>
  /\ call = "idle"
  /\ stats = [total |-> 0, success |-> 0, failed |-> 0, skipped |-> 0,
              startTime |-> -1, endTime |-> -1]
  /\ task = <<>>
  /\ disk = <<>>
  /\ now = 0
  /\ run = 0
  /\ prev = <<>>
  /\ faulty = FALSE

\* ---------------------------------------------------------------- actions
\* downloadAll, up to `await ensureDir(finalDir)`
DownloadAll(us) ==
  /\ call \in {"idle", "returned", "rejected"}
  /\ run < MaxRuns
  /\ run > 0 => us = urls
  /\ \E t \in now..MaxClock :
       /\ now' = t
       /\ stats' = [stats EXCEPT !.startTime = t, !.total = Len(us)]
  /\ urls' = us
  /\ call' = "mkdir"
  /\ run' = run + 1
  /\ prev' = IF call = "returned" THEN [i \in DOMAIN task |-> task[i].outcome] ELSE <<>>
  /\ task' = <<>>
  /\ faulty' = FALSE
  /\ UNCHANGED <<capVars, maxConcurrent, disk>>

\* ensureDir resolves; urls.map(... this.limit(...)) queues every task
EnsureDirOk ==
  /\ call = "mkdir"
  /\ call' = "running"
  /\ task' = [i \in 1..Len(urls) |-> NewTask]
  /\ UNCHANGED <<capVars, maxConcurrent, urls, stats, disk, now, run, prev, faulty>>

\* ensureDir rejects; downloadAll rejects
EnsureDirFail ==
  /\ call = "mkdir"
  /\ call' = "rejected"
  /\ faulty' = TRUE
  /\ UNCHANGED <<capVars, maxConcurrent, urls, stats, task, disk, now, run, prev>>

\* downloadSingle without the existsSync test of line 403
StartNoSkip(i) ==
  /\ call = "running"
  /\ task[i].st = "queued"
  /\ \A j \in Queued : i <= j
  /\ SlotFree
  /\ \E t \in (IF UsesClock(urls[i]) THEN now..MaxClock ELSE {now}) :
       /\ now' = t
       /\ task' = [task EXCEPT ![i].st = "get", ![i].path = safeFilename(urls[i], t),
                                ![i].gets = @ + 1]
  /\ UNCHANGED <<capVars, maxConcurrent, urls, call, stats, disk, run, prev, faulty>>

\* p-limit dequeues task i and runs downloadSingle up to `await client.get`
Start(i) ==
  /\ call = "running"
  /\ task[i].st = "queued"
  /\ \A j \in Queued : i <= j
  /\ SlotFree
  /\ \E t \in (IF UsesClock(urls[i]) THEN now..MaxClock ELSE {now}) :
       LET p == safeFilename(urls[i], t) IN
       /\ now' = t
       /\ IF Exists(p)
          THEN /\ task' = [task EXCEPT ![i].st = "done", ![i].path = p,
                                        ![i].outcome = "skipped"]
               /\ updateStats("skipped")
          ELSE /\ task' = [task EXCEPT ![i].st = "get", ![i].path = p,
                                        ![i].gets = @ + 1]
               /\ stats' = stats
  /\ UNCHANGED <<capVars, maxConcurrent, urls, call, disk, run, prev, faulty>>

\* the catch block of downloadSingle
Catch(i) ==
  /\ disk' = Unlink(disk, task[i].path)
  /\ updateStats("failed")
  /\ task' = [task EXCEPT ![i].st = "done", ![i].outcome = "failed"]
  /\ faulty' = TRUE
  /\ UNCHANGED <<capVars, maxConcurrent, urls, call, now, run, prev>>

\* the GET resolves with status 200: fs.createWriteStream(filePath)
GetOk(i) ==
  /\ ~StartPending
  /\ task[i].st = "get"
  /\ task' = [task EXCEPT ![i].st = "open"]
  /\ UNCHANGED <<capVars, maxConcurrent, urls, call, stats, disk, now, run, prev, faulty>>

\* the GET rejects: status other than 200, timeout, connection error
GetFail(i) ==
  /\ ~StartPending
  /\ task[i].st = "get"
  /\ Catch(i)

\* the write stream opens its file; response.data is flowing into it
WriterOpenOk(i) ==
  /\ ~StartPending
  /\ task[i].st = "open"
  /\ disk' = OpenForWrite(disk, task[i].path, i)
  /\ task' = [task EXCEPT ![i].st = "pipe", ![i].ino = disk'[task[i].path].ino]
  /\ UNCHANGED <<capVars, maxConcurrent, urls, call, stats, now, run, prev, faulty>>

\* the write stream fails to open: writer 'error', reject, catch
WriterOpenFail(i) ==
  /\ ~StartPending
  /\ task[i].st = "open"
  /\ Catch(i)

\* the body ends, the writer finishes and emits 'close': resolve, Success
WriterClose(i) ==
  /\ ~StartPending
  /\ task[i].st = "pipe"
  /\ disk' = CloseWriter(disk, i)
  /\ updateStats("success")
  /\ task' = [task EXCEPT ![i].st = "done", ![i].outcome = "success"]
  /\ UNCHANGED <<capVars, maxConcurrent, urls, call, now, run, prev, faulty>>

\* a write fails: writer 'error', writer.close(), reject, catch
WriterError(i) ==
  /\ ~StartPending
  /\ task[i].st = "pipe"
  /\ Catch(i)

\* response.data emits 'error': pipe() does not end or destroy the writer,
\* no writer event follows and the promise of lines 416-429 never settles
BodyStreamError(i) ==
  /\ ~StartPending
  /\ task[i].st = "pipe"
  /\ task' = [task EXCEPT ![i].st = "hung"]
  /\ faulty' = TRUE
  /\ UNCHANGED <<capVars, maxConcurrent, urls, call, stats, disk, now, run, prev>>

\* downloadAll awaiting Promise.all over tasks that rethrow their error
DownloadAllReturnRethrow ==
  /\ call = "running"
  /\ \A i \in Idx : task[i].st = "done"
  /\ IF \E i \in Idx : task[i].outcome = "failed"
     THEN /\ call' = "rejected"
          /\ UNCHANGED <<stats, now>>
     ELSE /\ call' = "returned"
          /\ \E t \in now..MaxClock :
               /\ now' = t
               /\ stats' = [stats EXCEPT !.endTime = t]
  /\ UNCHANGED <<capVars, maxConcurrent, urls, task, disk, run, prev, faulty>>

\* Promise.allSettled resolves: endTime, return this.stats
DownloadAllReturn ==
  /\ call = "running"
  /\ \A i \in Idx : task[i].st = "done"
  /\ \E t \in now..MaxClock :
       /\ now' = t
       /\ stats' = [stats EXCEPT !.endTime = t]
  /\ call' = "returned"
  /\ UNCHANGED <<capVars, maxConcurrent, urls, task, disk, run, prev, faulty>>

Next ==
  \/ \E us \in UrlLists : DownloadAll(us)
  \/ EnsureDirOk
  \/ EnsureDirFail
  \/ \E i \in Idx : Start(i)
  \/ \E i \in Idx : GetOk(i)
  \/ \E i \in Idx : GetFail(i)
  \/ \E i \in Idx : WriterOpenOk(i)
  \/ \E i \in Idx : WriterOpenFail(i)
  \/ \E i \in Idx : WriterClose(i)
  \/ \E i \in Idx : WriterError(i)
  \/ \E i \in Idx : BodyStreamError(i)
  \/ DownloadAllReturn

Spec == Init /\ [][Next]_vars


\* =========================================================== capture store
\* A response is reduced to what the handler reads of it: the resource type
\* of its request, the content-type header as a sequence of tokens (<<>> when
\* the header is absent) and the characters of path.basename(url.pathname).
CtPng  == <<"image", "/", "png">>
CtJpeg == <<"image", "/", "jpeg">>
CtHtml == <<"text", "/", "html">>
CtUpper == <<"IMAGE", "/", "PNG">>
CtInner == <<"text", "/", "image", "/">>
ResponseSet ==
  { [rtype |-> "image",    ctype |-> CtPng,   base |-> <<"p", ".", "j">>],
    [rtype |-> "document", ctype |-> CtHtml,  base |-> <<"x">>],
    [rtype |-> "other",    ctype |-> CtJpeg,  base |-> <<"p", ".", "j">>],
    [rtype |-> "image",    ctype |-> CtJpeg,  base |-> <<"q", ":", ".", "j">>],
    [rtype |-> "other",    ctype |-> CtUpper, base |-> <<>>],
    [rtype |-> "image",    ctype |-> <<>>,    base |-> <<"x">>],
    [rtype |-> "other",    ctype |-> CtInner, base |-> <<"q", ".", "j">>] }

\* String.prototype.toLowerCase on the header value
LowerTok(c) == CASE c = "IMAGE" -> "image" [] c = "PNG" -> "png" [] OTHER -> c
toLowerCase(s) == [k \in DOMAIN s |-> LowerTok(s[k])]

startsWith(s, pre) == Len(s) >= Len(pre) /\ SubSeq(s, 1, Len(pre)) = pre

\* a classifier that looks at the content-type only
isImageResponseHeaderOnly(resourceType, contentType) ==
  startsWith(contentType, <<"image", "/">>)

\* isImageResponse(resourceType, contentType)
isImageResponse(resourceType, contentType) ==
  resourceType = "image" \/ startsWith(contentType, <<"image", "/">>)

\* path.extname: from the last '.', empty when there is none or it leads
LastDot(s) == IF \E k \in DOMAIN s : s[k] = "." THEN CHOOSE k \in DOMAIN s : s[k] = "." /\ \A m \in DOMAIN s : s[m] = "." => m <= k ELSE 0
extname(s) == IF LastDot(s) <= 1 THEN <<>> ELSE SubSeq(s, LastDot(s), Len(s))

\* getFileExtension: exact lookup of the raw header value, default .jpg
getFileExtension(ctype) ==
  CASE ctype = CtPng -> <<".", "png">>
    [] ctype = CtJpeg -> <<".", "jpg">>
    [] OTHER -> <<".", "jpg">>

\* sanitizeFilename
UnsafeChars == {"<", ">", ":", "\"", "/", "\\", "|", "?", "*"}
Whitespace == {" "}
NameCap == 255
Dash(s) == [k \in DOMAIN s |-> IF s[k] \in UnsafeChars \cup Whitespace THEN "-" ELSE s[k]]
RECURSIVE Collapse(_)
Collapse(s) ==
  IF Len(s) <= 1 THEN s
  ELSE IF s[1] = "-" /\ s[2] = "-" THEN Collapse(Tail(s))
       ELSE <<s[1]>> \o Collapse(Tail(s))
TrimDash(s) ==
  LET a == IF s # <<>> /\ Head(s) = "-" THEN Tail(s) ELSE s
  IN IF a # <<>> /\ a[Len(a)] = "-" THEN SubSeq(a, 1, Len(a) - 1) ELSE a
sanitizeFilename(s) ==
  LET u == TrimDash(Collapse(Dash(s)))
  IN SubSeq(u, 1, IF Len(u) < NameCap THEN Len(u) ELSE NameCap)

\* does generateFilename synthesize a name (and read clock and random)?
Synthesizes(resp) == resp.base = <<>> \/ extname(resp.base) = <<>>

\* generateFilename(url, response)
generateFilename(resp, t, r) ==
  sanitizeFilename(
    IF Synthesizes(resp)
    THEN <<"image", "-", ToString(t), "-", ToString(r)>> \o getFileExtension(resp.ctype)
    ELSE resp.base)

Put(m, k, v) == [q \in DOMAIN m \cup {k} |-> IF q = k THEN v ELSE m[q]]

\* setupNetworkMonitoring(page)
SetupNetworkMonitoring ==
  /\ ~monitoring
  /\ monitoring' = TRUE
  /\ \E t \in now..MaxClock :
       /\ now' = t
       /\ capStats' = [capStats EXCEPT !.startTime = t]
  /\ cleared' = FALSE
  /\ UNCHANGED <<fetchVars, networkImages, keyOrder, capDisk, lastFlush, probe, delivered>>

\* the page emits a response: the handler classifies it and, for an image,
\* runs captureImage up to `await response.buffer()`
Deliver(resp) ==
  /\ monitoring
  /\ Len(delivered) < MaxResponses
  /\ delivered' = Append(delivered,
       [resp |-> resp, key |-> <<>>,
        status |-> IF isImageResponse(resp.rtype, toLowerCase(resp.ctype))
                   THEN "reading" ELSE "ignored"])
  /\ UNCHANGED <<fetchVars, now, monitoring, networkImages, keyOrder, capDisk, lastFlush, cleared, probe, capStats>>

\* response.buffer() resolves: the rest of captureImage
BodyReadOk(k) ==
  /\ delivered[k].status = "reading"
  /\ \E t \in (IF Synthesizes(delivered[k].resp) THEN now..MaxClock ELSE {now}) :
     \E r \in (IF Synthesizes(delivered[k].resp) THEN 0..MaxRand ELSE {0}) :
       LET filename == generateFilename(delivered[k].resp, t, r) IN
       /\ now' = t
       /\ networkImages' = Put(networkImages, filename,
                               [buffer |-> k, url |-> delivered[k].resp.base])
       /\ keyOrder' = IF filename \in DOMAIN networkImages THEN keyOrder
                      ELSE Append(keyOrder, filename)
       /\ delivered' = [delivered EXCEPT ![k].status = "buffered", ![k].key = filename]
  /\ capStats' = [capStats EXCEPT !.totalCaptured = @ + 1]
  /\ cleared' = FALSE
  /\ UNCHANGED <<fetchVars, monitoring, capDisk, lastFlush, probe>>

\* a catch that counts the response as captured before returning
BodyReadFailCounted(k) ==
  /\ delivered[k].status = "reading"
  /\ delivered' = [delivered EXCEPT ![k].status = "dropped"]
  /\ capStats' = [capStats EXCEPT !.totalCaptured = @ + 1]
  /\ UNCHANGED <<fetchVars, now, monitoring, networkImages, keyOrder, capDisk, lastFlush, cleared, probe>>

\* response.buffer() rejects: the catch of captureImage logs and returns
BodyReadFail(k) ==
  /\ delivered[k].status = "reading"
  /\ delivered' = [delivered EXCEPT ![k].status = "dropped"]
  /\ UNCHANGED <<fetchVars, now, monitoring, networkImages, keyOrder, capDisk, lastFlush, cleared, probe, capStats>>

\* ----------------------------------------------------------------- flush
\* the attempt bound of ensureUniqueFilename
AttemptBound == 1000

\* path.parse(filename).name and .ext
ParsedExt(filename) == extname(filename)
ParsedName(filename) == SubSeq(filename, 1, Len(filename) - Len(ParsedExt(filename)))

\* `${parsed.name}-${counter}${parsed.ext}`
Variant(filename, counter) ==
  ParsedName(filename) \o <<"-", ToString(counter)>> \o ParsedExt(filename)

\* the do-while loop of ensureUniqueFilename: the counters at which it
\* stops are those whose variant is not written, and the last counter the
\* condition `counter < 1000` admits; the loop returns the first of them
LoopStops(filename, writtenFiles) ==
  {c \in 1..(AttemptBound - 1) :
     Variant(filename, c) \notin writtenFiles \/ c + 1 >= AttemptBound}

UniqueLoop(filename, writtenFiles) ==
  LET stops == LoopStops(filename, writtenFiles)
  IN Variant(filename, CHOOSE c \in stops : \A m \in stops : c <= m)

\* ensureUniqueFilename(filename, writtenFiles)
ensureUniqueFilename(filename, writtenFiles) ==
  IF filename \notin writtenFiles THEN filename
  ELSE UniqueLoop(filename, writtenFiles)

\* the state of saveImagesToDisk before its loop
NewResults(d) ==
  [writtenFiles |-> {}, disk |-> d, success |-> 0, failed |-> 0, duplicates |-> 0]

\* a loop body that writes without looking at the disk
SaveEntryOverwrite(acc, filename, buffer, throws, leaves) ==
  LET finalFilename == ensureUniqueFilename(filename, acc.writtenFiles) IN
  IF throws
  THEN [acc EXCEPT !.failed = @ + 1]
  ELSE [acc EXCEPT !.disk = Put(@, finalFilename, buffer),
                   !.writtenFiles = @ \cup {finalFilename},
                   !.success = @ + 1]

\* a loop body whose catch logs the failed write without counting it
SaveEntryUncounted(acc, filename, buffer, throws, leaves) ==
  LET finalFilename == ensureUniqueFilename(filename, acc.writtenFiles) IN
  IF finalFilename \in DOMAIN acc.disk
  THEN [acc EXCEPT !.duplicates = @ + 1]
  ELSE IF throws
       THEN [acc EXCEPT !.disk = IF leaves THEN Put(@, finalFilename, 0 - buffer) ELSE @]
       ELSE [acc EXCEPT !.disk = Put(@, finalFilename, buffer),
                        !.writtenFiles = @ \cup {finalFilename},
                        !.success = @ + 1]

\* one iteration of the loop of saveImagesToDisk; `throws` says whether
\* writeFileSync throws, `leaves` whether it then leaves a truncated file
SaveEntry(acc, filename, buffer, throws, leaves) ==
  LET finalFilename == ensureUniqueFilename(filename, acc.writtenFiles) IN
  IF finalFilename \in DOMAIN acc.disk
  THEN [acc EXCEPT !.duplicates = @ + 1]
  ELSE IF throws
       THEN [acc EXCEPT !.failed = @ + 1,
                        !.disk = IF leaves THEN Put(@, finalFilename, 0 - buffer) ELSE @]
       ELSE [acc EXCEPT !.disk = Put(@, finalFilename, buffer),
                        !.writtenFiles = @ \cup {finalFilename},
                        !.success = @ + 1]

\* saveImagesToDisk: the entries of the map in insertion order
RECURSIVE SaveLoop(_, _, _, _, _)
SaveLoop(keys, images, acc, throwing, leaving) ==
  IF keys = <<>> THEN acc
  ELSE SaveLoop(Tail(keys), images,
                SaveEntry(acc, Head(keys), images[Head(keys)].buffer,
                          Head(keys) \in throwing, Head(keys) \in leaving),
                throwing, leaving)

BufferedNow == {k \in DOMAIN delivered : delivered[k].status = "buffered"}

\* saveAllImages: fs.mkdirSync throws and the call rejects
SaveAllImagesMkdirFail ==
  /\ lastFlush.calls < MaxFlushes
  /\ lastFlush' = [NoFlush EXCEPT !.calls = lastFlush.calls + 1, !.path = "threw",
                                  !.captured = BufferedNow, !.n = Len(keyOrder)]
  /\ UNCHANGED <<fetchVars, now, monitoring, networkImages, keyOrder, capDisk, cleared, probe, capStats, delivered>>

\* an empty-store path that stamps endTime like the flush path
SaveAllImagesEmptyStamped ==
  /\ lastFlush.calls < MaxFlushes
  /\ DOMAIN networkImages = {}
  /\ lastFlush' = [NoFlush EXCEPT !.calls = lastFlush.calls + 1, !.path = "empty"]
  /\ capStats' = [capStats EXCEPT !.endTime = now]
  /\ UNCHANGED <<fetchVars, now, monitoring, networkImages, keyOrder, capDisk, cleared, probe, delivered>>

\* saveAllImages on an empty store: warning, return this.stats
SaveAllImagesEmpty ==
  /\ lastFlush.calls < MaxFlushes
  /\ DOMAIN networkImages = {}
  /\ lastFlush' = [NoFlush EXCEPT !.calls = lastFlush.calls + 1, !.path = "empty"]
  /\ UNCHANGED <<fetchVars, now, monitoring, networkImages, keyOrder, capDisk, cleared, probe, capStats, delivered>>

\* a flush whose loop awaits each write, so that the handler of a pending
\* body read stores its asset while the loop is under way
SaveAllImagesFlushYielding ==
  /\ lastFlush.calls < MaxFlushes
  /\ DOMAIN networkImages # {}
  /\ \E throwing \in SUBSET DOMAIN networkImages : \E leaving \in SUBSET throwing :
     \E t \in now..MaxClock :
     \E k \in {j \in DOMAIN delivered : delivered[j].status = "reading"} :
       LET results == SaveLoop(keyOrder, networkImages, NewResults(capDisk), throwing, leaving)
           filename == generateFilename(delivered[k].resp, t, 0)
       IN
       /\ now' = t
       /\ capDisk' = results.disk
       /\ networkImages' = Put(networkImages, filename,
                               [buffer |-> k, url |-> delivered[k].resp.base])
       /\ keyOrder' = IF filename \in DOMAIN networkImages THEN keyOrder
                      ELSE Append(keyOrder, filename)
       /\ delivered' = [delivered EXCEPT ![k].status = "buffered", ![k].key = filename]
       /\ capStats' = [capStats EXCEPT !.totalCaptured = @ + 1,
                                       !.totalSaved = results.success,
                                       !.totalErrors = results.failed,
                                       !.endTime = t]
       /\ lastFlush' = [calls |-> lastFlush.calls + 1, path |-> "flushed",
                        captured |-> BufferedNow, n |-> Len(keyOrder),
                        success |-> results.success, failed |-> results.failed,
                        duplicates |-> results.duplicates]
  /\ cleared' = FALSE
  /\ UNCHANGED <<fetchVars, monitoring, probe>>

\* saveAllImages on a non-empty store: saveImagesToDisk, endTime, return
SaveAllImagesFlush ==
  /\ lastFlush.calls < MaxFlushes
  /\ DOMAIN networkImages # {}
  /\ \E throwing \in SUBSET DOMAIN networkImages : \E leaving \in SUBSET throwing :
     \E t \in now..MaxClock :
       LET results == SaveLoop(keyOrder, networkImages, NewResults(capDisk), throwing, leaving) IN
       /\ now' = t
       /\ capDisk' = results.disk
       /\ capStats' = [capStats EXCEPT !.totalSaved = results.success,
                                       !.totalErrors = results.failed,
                                       !.endTime = t]
       /\ lastFlush' = [calls |-> lastFlush.calls + 1, path |-> "flushed",
                        captured |-> BufferedNow, n |-> Len(keyOrder),
                        success |-> results.success, failed |-> results.failed,
                        duplicates |-> results.duplicates]
  /\ cleared' = FALSE
  /\ UNCHANGED <<fetchVars, monitoring, networkImages, keyOrder, probe, delivered>>

\* a clear() that empties the map and keeps the counters
ClearMapOnly ==
  /\ networkImages' = <<>>
  /\ keyOrder' = <<>>
  /\ delivered' = [k \in DOMAIN delivered |->
                     IF delivered[k].status = "buffered"
                     THEN [delivered[k] EXCEPT !.status = "cleared"] ELSE delivered[k]]
  /\ cleared' = TRUE
  /\ UNCHANGED <<fetchVars, now, monitoring, capDisk, lastFlush, probe, capStats>>

\* clear()
Clear ==
  /\ networkImages' = <<>>
  /\ keyOrder' = <<>>
  /\ capStats' = [totalCaptured |-> 0, totalSaved |-> 0, totalErrors |-> 0,
                  startTime |-> -1, endTime |-> -1]
  /\ delivered' = [k \in DOMAIN delivered |->
                     IF delivered[k].status = "buffered"
                     THEN [delivered[k] EXCEPT !.status = "cleared"] ELSE delivered[k]]
  /\ cleared' = TRUE
  /\ UNCHANGED <<fetchVars, now, monitoring, capDisk, lastFlush, probe>>

\* the output directory when the store is created: empty, or holding a file
\* of an earlier program run
InitialDisks == {<<>>, [f \in {<<"p", ".", "j">>} |-> 0]}

CaptureInit ==
  /\ CaptureStoreInit
  /\ capDisk \in InitialDisks
  /\ probe = NoProbe
  /\ maxConcurrent = 1
  /\ urls = <<>>
  /\ call = "idle"
  /\ stats = [total |-> 0, success |-> 0, failed |-> 0, skipped |-> 0,
              startTime |-> -1, endTime |-> -1]
  /\ task = <<>>
  /\ disk = <<>>
  /\ now = 0
  /\ run = 0
  /\ prev = <<>>
  /\ faulty = FALSE

CaptureNext ==
  \/ SetupNetworkMonitoring
  \/ \E resp \in ResponseSet : Deliver(resp)
  \/ \E k \in DOMAIN delivered : BodyReadOk(k)
  \/ \E k \in DOMAIN delivered : BodyReadFail(k)

\* the response handler alone: what the page emits and how it is buffered
CaptureSpec == CaptureInit /\ [][CaptureNext]_vars

\* the image responses emitted while the store is also flushed and cleared
FlushResponses ==
  { [rtype |-> "image", ctype |-> CtPng,  base |-> <<"p", ".", "j">>],
    [rtype |-> "image", ctype |-> CtJpeg, base |-> <<"q", ":", ".", "j">>] }

FlushNext ==
  \/ SetupNetworkMonitoring
  \/ \E resp \in FlushResponses : Deliver(resp)
  \/ \E k \in DOMAIN delivered : BodyReadOk(k)
  \/ \E k \in DOMAIN delivered : BodyReadFail(k)
  \/ SaveAllImagesMkdirFail
  \/ SaveAllImagesEmpty
  \/ SaveAllImagesFlush
  \/ Clear

\* the capture store over its life: capture, saveAllImages, clear
FlushSpec == CaptureInit /\ [][FlushNext]_vars

\* ------------------------------------- one loop iteration, on drawn inputs
\* the file names probed: with an extension, with a dash, without extension
ProbeNames == {<<"p", ".", "j">>, <<"q", "-", ".", "j">>, <<"x">>}

\* writtenFiles holding filename and its first n - 1 suffixed variants
TakenNames(filename, n) ==
  IF n = 0 THEN {} ELSE {filename} \cup {Variant(filename, c) : c \in 1..(n - 1)}

\* the sizes of writtenFiles probed: small ones, and all variants taken
TakenCounts == (0..MaxTaken) \cup {AttemptBound - 1, AttemptBound}

ProbeInit ==
  /\ CaptureStoreInit
  /\ capDisk = <<>>
  /\ maxConcurrent = 1
  /\ urls = <<>>
  /\ call = "idle"
  /\ stats = [total |-> 0, success |-> 0, failed |-> 0, skipped |-> 0,
              startTime |-> -1, endTime |-> -1]
  /\ task = <<>>
  /\ disk = <<>>
  /\ now = 0
  /\ run = 0
  /\ prev = <<>>
  /\ faulty = FALSE
  /\ probe \in {[NoProbe EXCEPT !.filename = f, !.written = TakenNames(f, n)] :
                  f \in ProbeNames, n \in TakenCounts}

\* the loop body of saveImagesToDisk applied to an entry named
\* probe.filename, when writtenFiles (all on disk) is probe.written
ProbeEntry ==
  /\ ~probe.done
  /\ \E throws \in BOOLEAN : \E leaves \in {FALSE, throws} :
       \E before \in {[NewResults([f \in probe.written |-> 1])
                          EXCEPT !.writtenFiles = probe.written]} :
       \E after \in {SaveEntry(before, probe.filename, 2, throws, leaves)} :
         probe' = [probe EXCEPT
                     !.done = TRUE,
                     !.final = ensureUniqueFilename(probe.filename, before.writtenFiles),
                     !.success = after.success,
                     !.failed = after.failed,
                     !.duplicates = after.duplicates,
                     !.kept = \A f \in probe.written : after.disk[f] = 1]
  /\ UNCHANGED <<fetchVars, now, monitoring, networkImages, keyOrder, capDisk,
                 lastFlush, cleared, capStats, delivered>>

ProbeNext == ProbeEntry

\* saveImagesToDisk's loop body and ensureUniqueFilename on drawn inputs
ProbeSpec == ProbeInit /\ [][ProbeNext]_vars

\* The scheduling the event loop and the environment guarantee: a pending
\* continuation runs, every GET responds or errors, every stream that is
\* being written ends or errors.
FairSpec ==
  /\ Spec
  /\ WF_vars(EnsureDirOk \/ EnsureDirFail)
  /\ WF_vars(DownloadAllReturn)
  /\ \A i \in 1..MaxUrls :
       /\ WF_vars(i \in Idx /\ Start(i))
       /\ WF_vars(i \in Idx /\ (GetOk(i) \/ GetFail(i)))
       /\ WF_vars(i \in Idx /\ (WriterOpenOk(i) \/ WriterOpenFail(i)))
       /\ WF_vars(i \in Idx /\ (WriterClose(i) \/ WriterError(i) \/ BodyStreamError(i)))

\* ----------------------------------------------------------------- claims
Processed == stats.success + stats.failed + stats.skipped
Outcomes == [i \in Idx |-> task[i].outcome]

\* C1: at every moment the number of downloadSingle attempts that have
\* started and not yet recorded an outcome is at most the ceiling.
C1_Ceiling == Cardinality(InFlight) <= maxConcurrent

\* the ceiling is reached while further URLs wait in the queue
C1_Witness == Cardinality(InFlight) = maxConcurrent /\ Queued # {}

\* C2: success + failed + skipped <= total in every state of every call,
\* repeated calls on one instance included, with equality on return.
C2_Claim == Processed <= stats.total /\ (call = "returned" => Processed = stats.total)

\* C3: no two attempts have a write open on the same destination path at
\* the same time.
C3_Claim ==
  \A i \in Idx : \A j \in Idx :
    (i # j /\ task[i].st = "pipe" /\ task[j].st = "pipe") => task[i].path # task[j].path

\* C4: [A.jpg, B.png, A.jpg] with ceiling 2, an empty directory and no
\* failing GET or write ends with Success, Success, Skipped.
C4_Claim ==
  (run = 1 /\ urls = <<UA, UB, UA>> /\ maxConcurrent = 2 /\ call = "returned" /\ ~faulty)
    => /\ Outcomes = <<"success", "success", "skipped">>
       /\ stats.success = 2 /\ stats.skipped = 1 /\ stats.failed = 0

\* C5: a re-run with the same URL list and directory, after a completed run
\* that left no Failed outcome, records only Skipped outcomes and issues no
\* GET.
C5_Claim ==
  (run >= 2 /\ call = "returned" /\ prev # <<>> /\ \A k \in DOMAIN prev : prev[k] # "failed")
    => \A i \in Idx : task[i].outcome = "skipped" /\ task[i].gets = 0

\* C6: when downloadSingle finds a file at the derived destination path it
\* records Skipped, issues no GET and leaves the directory as it was.
C6_SkipFrame ==
  [][\A i \in DOMAIN task :
       (/\ task[i].st = "queued"
        /\ i \in DOMAIN task'
        /\ task'[i].st # "queued"
        /\ Exists(task'[i].path))
       => /\ task'[i].outcome = "skipped"
          /\ task'[i].gets = task[i].gets
          /\ stats'.skipped = stats.skipped + 1
          /\ stats'.success = stats.success /\ stats'.failed = stats.failed
          /\ disk' = disk]_vars

\* an attempt found its file present and was skipped
C6_Witness == \E i \in Idx : task[i].outcome = "skipped" /\ Exists(task[i].path)

\* C7: once an attempt has recorded Failed for a destination path, that
\* path holds no partially written file.
C7_Claim == \A i \in Idx : task[i].outcome = "failed" => ~Partial(task[i].path)

\* C8: downloadAll rejects only out of the directory creation, before any
\* attempt exists; per-URL failures never turn the call into a rejection.
C8_NeverRejects ==
  /\ [](call = "rejected" => task = <<>>)
  /\ [][(call' = "rejected" /\ call # "rejected") => call = "mkdir"]_vars
  /\ [][(call = "running" /\ call' # "running") => (call' = "returned" /\ stats'.total = stats.total)]_vars

\* the call returned its stats although an attempt failed
C8_Witness == call = "returned" /\ stats.failed > 0 /\ \E i \in Idx : task[i].outcome = "failed"

\* C9: every downloadAll call that reached its downloads eventually returns.
C9_Claim == (call = "running") ~> (call = "returned")

\* C10 (first part): a response is handed to the body read exactly when its
\* resource type is "image" or its content-type begins with image/; it is
\* in the buffer map exactly when, besides, its body read has succeeded; any
\* other response leaves the map and totalCaptured as they were.
ClaimedImage(resp) ==
  \/ resp.rtype = "image"
  \/ /\ Len(resp.ctype) >= 2
     /\ LowerTok(resp.ctype[1]) = "image"
     /\ resp.ctype[2] = "/"

Buffered == {k \in DOMAIN delivered : delivered[k].status = "buffered"}

C10_Filter ==
  /\ [](\A k \in DOMAIN delivered : (delivered[k].status = "ignored") <=> ~ClaimedImage(delivered[k].resp))
  /\ [](capStats.totalCaptured = Cardinality(Buffered))
  /\ [](DOMAIN networkImages = {delivered[k].key : k \in Buffered})
  /\ [][(Len(delivered') > Len(delivered) /\ ~ClaimedImage(delivered'[Len(delivered')].resp))
         => (networkImages' = networkImages /\ capStats' = capStats)]_vars
  /\ [][\A k \in DOMAIN delivered :
          (delivered[k].status = "reading" /\ delivered'[k].status = "dropped")
          => (networkImages' = networkImages /\ capStats' = capStats)]_vars

\* the three responses of the example, each handled to its end with its
\* body read
ExampleHandled ==
  /\ Len(delivered) = 3
  /\ delivered[1].resp.ctype = CtPng /\ delivered[1].status = "buffered"
  /\ delivered[2].resp.ctype = CtHtml /\ delivered[2].resp.rtype # "image"
  /\ delivered[3].resp.ctype = CtJpeg /\ delivered[3].status = "buffered"

\* C10 (as claimed): image/png, text/html, image/jpeg leave exactly two
\* buffered assets.
C10_Claim == ExampleHandled => Cardinality(DOMAIN networkImages) = 2

\* C10 (amended): the classification of the first part, and for the example
\* totalCaptured = 2 with two buffered assets when the two image responses
\* have distinct filename keys and one when they share a key.
C10_Amended ==
  /\ C10_Filter
  /\ [](ExampleHandled =>
          /\ capStats.totalCaptured = 2
          /\ delivered[2].status = "ignored"
          /\ Cardinality(DOMAIN networkImages) =
               (IF delivered[1].key = delivered[3].key THEN 1 ELSE 2))

\* the example handled to its end with two distinct filename keys
C10_Witness ==
  /\ ExampleHandled
  /\ delivered[1].key # delivered[3].key
  /\ Cardinality(DOMAIN networkImages) = 2

\* ------------------------------------------------------- claims C11 .. C20
\* C11: when two accepted responses resolve to the same filename key, the
\* store holds one asset under that key and its buffer is that of the
\* response delivered last, whatever the order in which the two body reads
\* complete.
C11_Claim ==
  \A j, k \in DOMAIN delivered :
    (/\ j < k
     /\ delivered[j].status = "buffered"
     /\ delivered[k].status = "buffered"
     /\ delivered[j].key = delivered[k].key)
    => /\ delivered[k].key \in DOMAIN networkImages
       /\ networkImages[delivered[k].key].buffer = k

\* a step in which the handler of some response ends in the catch of
\* captureImage
DropStep ==
  \E k \in DOMAIN delivered :
    /\ delivered[k].status = "reading"
    /\ k \in DOMAIN delivered'
    /\ delivered'[k].status = "dropped"

\* C12: a body-read error never leaves the response handler: the handler
\* ends normally with the response dropped, the buffer map and the counters
\* are unchanged by that response, the handlers of the other responses are
\* where they were and the handler stays attached.
C12_Swallowed ==
  /\ [][DropStep =>
          /\ networkImages' = networkImages
          /\ keyOrder' = keyOrder
          /\ capStats' = capStats
          /\ monitoring' = monitoring
          /\ \A j \in DOMAIN delivered :
               delivered[j].status # "reading" => delivered'[j] = delivered[j]]_vars
  /\ [](\A k \in DOMAIN delivered :
          delivered[k].status = "dropped" => monitoring)

\* a response was dropped on a body-read error and a response delivered
\* after it is buffered
C12_Witness ==
  \E k, j \in DOMAIN delivered :
    /\ k < j
    /\ delivered[k].status = "dropped"
    /\ delivered[j].status = "buffered"
    /\ delivered[j].key \in DOMAIN networkImages
    /\ networkImages[delivered[j].key].buffer = j
    /\ capStats.totalCaptured = Cardinality(BufferedNow)

\* the file name both assets of the example sanitize to
Photo == <<"p", ".", "j">>

\* a first flush that reported neither a failure nor a duplicate, after two
\* responses that both resolve to the name Photo were buffered
TwoPhotosFlushed(j, k) ==
  /\ lastFlush.path = "flushed"
  /\ lastFlush.calls = 1
  /\ lastFlush.failed = 0
  /\ lastFlush.duplicates = 0
  /\ j \in lastFlush.captured /\ k \in lastFlush.captured
  /\ j < k
  /\ delivered[j].key = Photo /\ delivered[k].key = Photo

\* C13: flushing two buffered assets that both sanitize to one name leaves
\* two files, the name and its first variant, each with its own asset's
\* bytes.
C13_Claim ==
  \A j, k \in DOMAIN delivered :
    TwoPhotosFlushed(j, k) =>
      /\ Photo \in DOMAIN capDisk
      /\ Variant(Photo, 1) \in DOMAIN capDisk
      /\ {capDisk[Photo], capDisk[Variant(Photo, 1)]} = {j, k}

\* a step that is one call of saveAllImages
FlushStep == lastFlush'.calls > lastFlush.calls

\* the buffered assets whose name is on disk when the flush begins
OnDiskBefore == {f \in DOMAIN networkImages : f \in DOMAIN capDisk}

\* C14: during flush a buffered asset whose final filename is already on
\* disk is counted as a duplicate, not as success or failed, and every file
\* that was on disk before the flush keeps its content.
C14_NoOverwrite ==
  [][FlushStep =>
       /\ \A f \in DOMAIN capDisk :
            f \in DOMAIN capDisk' /\ capDisk'[f] = capDisk[f]
       /\ lastFlush'.path = "flushed" =>
            /\ lastFlush'.duplicates = Cardinality(OnDiskBefore)
            /\ lastFlush'.success + lastFlush'.failed
                 = Cardinality(DOMAIN networkImages) - Cardinality(OnDiskBefore)]_vars

\* a flush met a file that was in the output directory before any capture,
\* counted it as a duplicate and left its content in place
C14_Witness ==
  /\ lastFlush.path = "flushed"
  /\ lastFlush.duplicates > 0
  /\ lastFlush.calls = 1
  /\ Photo \in DOMAIN capDisk
  /\ capDisk[Photo] = 0
  /\ \E k \in lastFlush.captured : delivered[k].key = Photo

\* a call of saveAllImages made while the buffer map is empty
EmptyFlushStep == FlushStep /\ DOMAIN networkImages = {}

\* C15 (as claimed): saveAllImages on an empty store leaves the stats record
\* and the disk unchanged and the call does not fail.
C15_Claim ==
  [][EmptyFlushStep =>
       /\ capStats' = capStats
       /\ capDisk' = capDisk
       /\ lastFlush'.path = "empty"]_vars

\* C15 (amended): saveAllImages on an empty store leaves the stats record,
\* the buffer map and the disk unchanged, and the call fails only when the
\* output directory cannot be created.
C15_Amended ==
  [][EmptyFlushStep =>
       /\ capStats' = capStats
       /\ capDisk' = capDisk
       /\ networkImages' = networkImages
       /\ lastFlush'.path \in {"empty", "threw"}
       /\ lastFlush'.success = 0 /\ lastFlush'.failed = 0
       /\ lastFlush'.duplicates = 0]_vars

\* saveAllImages returned through the empty-store path after a response had
\* been captured, flushed to disk and cleared
C15_Witness ==
  /\ lastFlush.path = "empty"
  /\ lastFlush.calls > 1
  /\ capStats.totalCaptured = 0
  /\ DOMAIN networkImages = {}
  /\ \E k \in DOMAIN delivered :
       delivered[k].status = "cleared" /\ delivered[k].key \in DOMAIN capDisk

\* the stats record of a new store
ZeroStats ==
  [totalCaptured |-> 0, totalSaved |-> 0, totalErrors |-> 0,
   startTime |-> -1, endTime |-> -1]

\* C16: after clear() the buffer map is empty and totalCaptured, totalSaved
\* and totalErrors are 0 with null timestamps, whatever captures and flushes
\* came before.
C16_Reset ==
  cleared => /\ networkImages = <<>>
             /\ keyOrder = <<>>
             /\ capStats = ZeroStats

\* clear() was called after a flush that had saved a captured asset
C16_Witness ==
  /\ cleared
  /\ lastFlush.path = "flushed"
  /\ lastFlush.success > 0
  /\ \E k \in lastFlush.captured : delivered[k].status = "cleared"

\* C17: each submitted URL gets one terminal outcome and at most one GET: a
\* transport error is followed by Failed for that index, no index issues a
\* second GET and an index that has its outcome keeps it.
C17_Claim ==
  /\ [](\A i \in Idx : task[i].gets <= 1)
  /\ [][\A i \in Idx :
          (task[i].outcome # "none" /\ run' = run /\ i \in DOMAIN task')
            => task'[i].outcome = task[i].outcome]_vars
  /\ \A i \in 1..MaxUrls :
       (i \in Idx /\ task[i].st = "hung") ~> (i \in Idx /\ task[i].outcome = "failed")

\* C18: a captured asset is destroyed on flush: when saveAllImages completes
\* on a non-empty store it leaves the buffer map empty.
C18_Claim ==
  [][(FlushStep /\ lastFlush'.path = "flushed") => DOMAIN networkImages' = {}]_vars

\* C19: two URLs without a usable path segment, at distinct indexes of one
\* run, get distinct destination paths, and neither is Skipped because of the
\* other.
C19_Claim ==
  \A i \in Idx : \A j \in Idx :
    (/\ i # j
     /\ UsesClock(urls[i]) /\ UsesClock(urls[j])
     /\ task[i].path # NoPath /\ task[j].path # NoPath)
    => /\ task[i].path # task[j].path
       /\ task[i].outcome # "skipped"

\* the entry's name and every suffixed variant the loop can try are in the
\* set of names written in this flush
Exhausted ==
  /\ probe.filename \in probe.written
  /\ \A c \in 1..(AttemptBound - 1) : Variant(probe.filename, c) \in probe.written

C21_Claim ==
  call = "returned" =>
    \A i \in Idx : task[i].outcome = "success" => Exists(task[i].path)

\* the accepted responses the session has delivered whose handler is still
\* awaiting response.buffer(), or has stored its asset
Accepted ==
  {k \in DOMAIN delivered : delivered[k].status \in {"reading", "buffered"}}

\* the flush visits an entry under the response's name or holding its bytes
Included(k) ==
  \E f \in DOMAIN networkImages :
    f = delivered[k].key \/ networkImages[f].buffer = k

\* C22: every accepted image response delivered before saveAllImages is
\* called is included in that flush, even when its body read is still
\* pending when the flush starts.
C22_Claim ==
  [][(FlushStep /\ lastFlush'.path # "threw") =>
       \A k \in Accepted : Included(k)]_vars

\* the keys of the buffer map in the order the loop visits them, each once
VisitsEachOnce ==
  /\ Len(keyOrder) = Cardinality(DOMAIN networkImages)
  /\ {keyOrder[i] : i \in DOMAIN keyOrder} = DOMAIN networkImages

\* C23: the flush loop is atomic with respect to capture: in the step that
\* runs saveImagesToDisk no handler of a response advances, the buffer map
\* and its order are as they were at the start, and the loop visits each
\* entry present at the start once.
C23_Atomic ==
  /\ [][(FlushStep /\ lastFlush'.path = "flushed") =>
          /\ networkImages' = networkImages
          /\ keyOrder' = keyOrder
          /\ delivered' = delivered
          /\ capStats'.totalCaptured = capStats.totalCaptured
          /\ lastFlush'.n = Cardinality(DOMAIN networkImages)]_vars
  /\ []VisitsEachOnce

\* a flush of two entries was made while the body read of a response
\* delivered before one of them was still pending
C23_Witness ==
  /\ lastFlush.path = "flushed"
  /\ lastFlush.n = 2
  /\ \E k \in DOMAIN delivered : \E j \in lastFlush.captured :
       k < j /\ delivered[k].status = "reading"

\* the files a flush step has written whole
NewlyWritten == {f \in DOMAIN capDisk' \ DOMAIN capDisk : capDisk'[f] > 0}

\* C24: after a flush of a store holding n entries, success + failed +
\* duplicates = n, totalSaved is that flush's success count (the number of
\* files it wrote) and totalErrors its failed count; and in every state the
\* buffer map holds at most totalCaptured entries.
C24_Counts ==
  /\ [][(FlushStep /\ lastFlush'.path = "flushed") =>
          /\ lastFlush'.success + lastFlush'.failed + lastFlush'.duplicates
               = Cardinality(DOMAIN networkImages)
          /\ lastFlush'.success = Cardinality(NewlyWritten)
          /\ capStats'.totalSaved = lastFlush'.success
          /\ capStats'.totalErrors = lastFlush'.failed]_vars
  /\ [](Cardinality(DOMAIN networkImages) <= capStats.totalCaptured)

\* a flush of two entries counted one failed write and one duplicate, after
\* three captures of which one replaced an earlier asset
C24_Witness ==
  /\ lastFlush.path = "flushed"
  /\ lastFlush.n = 2
  /\ lastFlush.failed = 1 /\ lastFlush.duplicates = 1 /\ lastFlush.success = 0
  /\ capStats.totalErrors = 1 /\ capStats.totalSaved = 0
  /\ capStats.totalCaptured = 3
  /\ Cardinality(DOMAIN networkImages) = 2

====
